---- MODULE Spec2Model ----
(***************************************************************************)
(* USB bootable creator: the run controller (worker.py), the image         *)
(* classifier and the two write flows (flows/windows_flow.py,              *)
(* flows/linux_flow.py) as one state machine.                              *)
(*                                                                         *)
(* One behaviour is one WorkerThread.run().  The environment is the image  *)
(* (its root markers, its size), the set of required tools absent from     *)
(* PATH, and the exit status of each external command.  `trace' is the     *)
(* interleaved record of every external command the run invoked and every  *)
(* signal it emitted, in program order.                                    *)
(***************************************************************************)
EXTENDS Integers, Sequences, FiniteSets, TLC

VARIABLES pc, missing, bootmgr, sources, mounted, dirs, wiped, isWin, exc,
          trace, ci, total, nlines

\* the percentage computation on its own: one number, one size, the result
VARIABLES calc

\* the progress parser on its own: a stream of dd output read in chunks
VARIABLES par

\* two runs classifying at the same time: the runs and /tmp/iso_detect
VARIABLES two

\* the main window: its widgets and the worker threads it started
VARIABLES gui

\* the state of one run
runvars == <<pc, missing, bootmgr, sources, mounted, dirs, wiped, isWin, exc,
             trace, ci, total, nlines>>

\* what a run on its own leaves alone
aux == <<calc, par, two, gui>>

vars == <<pc, missing, bootmgr, sources, mounted, dirs, wiped, isWin, exc,
          trace, ci, total, nlines, calc, par, two, gui>>

(***************************************************************************)
(* Bounds of the model.                                                    *)
(***************************************************************************)
MaxMissing == 1      \* at most this many tools are absent from PATH
MaxLines == 2        \* progress lines dd writes before it exits

(***************************************************************************)
(* The environment.                                                        *)
(***************************************************************************)
\* utils.py: the tools whose absence the program reckons with
REQUIRED_TOOLS ==
    {"dd", "wipefs", "parted", "mkfs.vfat", "mkfs.ntfs", "rsync", "mount", "umount"}

\* what os.path finds at <mountpoint>/bootmgr and <mountpoint>/sources
Markers == {"absent", "file", "dir"}

\* os.path.getsize(iso)
Sizes == {0, 1000}

\* the leading integer of a dd progress line "<n> bytes ... copied"
Nums == {500, 1200}

\* a line read from dd's stderr: no "bytes" in it, "bytes" without a leading
\* integer, or a well-formed progress line
LineKinds == {"other", "malformed", "progress"}

\* argv[0] of each external command the run invokes
Tool(c) ==
    CASE c \in {"mount_detect", "mount_iso", "mount_boot", "mount_install"} -> "mount"
      [] c \in {"umount_detect", "umount_iso", "umount_boot", "umount_install"} -> "umount"
      [] c = "wipefs" -> "wipefs"
      [] c \in {"mklabel", "mkpart_boot", "mkpart_install"} -> "parted"
      [] c = "mkfs_vfat" -> "mkfs.vfat"
      [] c = "mkfs_ntfs" -> "mkfs.ntfs"
      [] c \in {"rsync_boot", "rsync_install"} -> "rsync"
      [] c = "cp_bootwim" -> "cp"
      [] c = "sync" -> "sync"
      [] c = "dd" -> "dd"

(***************************************************************************)
(* Trace entries: external commands and emitted signals.                   *)
(***************************************************************************)
Ev(kind, text, cmd, val) == [kind |-> kind, text |-> text, cmd |-> cmd, val |-> val]

\* subprocess.run returned with exit status rc
CmdEv(c, rc) == Ev("cmd", "", c, rc)
\* subprocess could not execute the binary (FileNotFoundError)
NotFoundEv(c) == Ev("enoent", "", c, 0 - 1)
\* subprocess.Popen started the process
SpawnEv(c) == Ev("spawn", "", c, 0)
Log(t) == Ev("log", t, "", 0)
Overall(v) == Ev("overall", "", "", v)
StepEv(v) == Ev("step", "", "", v)

(***************************************************************************)
(* Exceptions in flight.                                                   *)
(***************************************************************************)
NoExc == [type |-> "none", cmd |-> ""]
CalledProcessError(c) == [type |-> "CalledProcessError", cmd |-> c]
FileNotFoundError(c) == [type |-> "FileNotFoundError", cmd |-> c]
RuntimeError == [type |-> "RuntimeError", cmd |-> "dd"]
ZeroDivisionError == [type |-> "ZeroDivisionError", cmd |-> ""]

\* str(e): the text of the exception; <argv> stands for the command's
\* argument list and <argv0> for its first element, both given by e.cmd
Str(e) ==
    CASE e.type = "CalledProcessError" -> "Command '<argv>' returned non-zero exit status 1."
      [] e.type = "FileNotFoundError" -> "[Errno 2] No such file or directory: '<argv0>'"
      [] e.type = "RuntimeError" -> "dd failed"
      [] e.type = "ZeroDivisionError" -> "division by zero"
      [] OTHER -> ""

\* the command whose name the text of str(e) carries
StrCmd(e) ==
    IF e.type \in {"CalledProcessError", "FileNotFoundError"} THEN e.cmd ELSE ""

(***************************************************************************)
(* The parts of the state a specification does not use stay at these.      *)
(***************************************************************************)
NoCalc == [num |-> 0, total |-> 1, out |-> 0 - 1]
NoPar == [stream |-> <<>>, total |-> 1, pos |-> 0, buf |-> <<>>, out |-> <<>>]
NoTwo == [run |-> <<>>, stack |-> <<>>, dir |-> FALSE]
NoGui ==
    [shown |-> FALSE, iso |-> "", hash |-> "", chk_verify |-> FALSE, dev |-> "",
     btn_start |-> FALSE, closed |-> FALSE, started |-> 0, handled |-> 0,
     cancelAt |-> 0 - 1, verified |-> FALSE]

\* no WorkerThread exists
NoRun ==
    /\ pc = "idle"
    /\ missing = {}
    /\ bootmgr = "absent"
    /\ sources = "absent"
    /\ mounted = {}
    /\ dirs = {}
    /\ wiped = {}
    /\ isWin = FALSE
    /\ exc = NoExc
    /\ trace = <<>>
    /\ ci = 1
    /\ total = 0
    /\ nlines = 0

(***************************************************************************)
(* Initial state: a WorkerThread has been constructed and started.         *)
(***************************************************************************)
Init ==
    /\ pc = "classify"
    /\ missing \in {s \in SUBSET REQUIRED_TOOLS : Cardinality(s) <= MaxMissing}
    /\ bootmgr \in Markers
    /\ sources \in Markers
    /\ mounted = {}
    /\ dirs = {}
    /\ wiped = {}
    /\ isWin = FALSE
    /\ exc = NoExc
    /\ trace = <<>>
    /\ ci = 1
    /\ total = 0
    /\ nlines = 0
    /\ calc = NoCalc
    /\ par = NoPar
    /\ two = NoTwo
    /\ gui = NoGui

(***************************************************************************)
(* mount(8) and umount(8).                                                 *)
(***************************************************************************)
\* exit statuses umount can return for mount point mp
UmountOutcomes(mp) == IF mp \in mounted THEN {0, 1} ELSE {1}

\* the mount table after umount of mp returned rc
AfterUmount(mp, rc) == IF rc = 0 THEN mounted \ {mp} ELSE mounted

(***************************************************************************)
(* Image classifier: WorkerThread._is_windows_iso.                         *)
(***************************************************************************)
\* variant: os.path.exists for both names
MarkersExist == bootmgr # "absent" /\ sources # "absent"

\* os.path.isfile(.../bootmgr) and os.path.isdir(.../sources)
MarkersSayWindows == bootmgr = "file" /\ sources = "dir"

\* makedirs, then the read-only loop mount and the marker test
ClassifyMount ==
    /\ pc = "classify"
    /\ pc' = "classify_finally"
    /\ dirs' = dirs \cup {"detect"}
    /\ IF "mount" \in missing
       THEN /\ trace' = Append(trace, NotFoundEv("mount_detect"))
            /\ exc' = FileNotFoundError("mount_detect")
            /\ UNCHANGED <<mounted, isWin>>
       ELSE \E rc \in {0, 1} :
            /\ trace' = Append(trace, CmdEv("mount_detect", rc))
            /\ exc' = exc
            /\ IF rc = 0
               THEN /\ mounted' = mounted \cup {"detect"}
                    /\ isWin' = MarkersSayWindows
               ELSE \* except subprocess.CalledProcessError: return False
                    /\ mounted' = mounted
                    /\ isWin' = FALSE
    /\ UNCHANGED <<aux, missing, bootmgr, sources, wiped, ci, total, nlines>>

\* variant: the two log lines exchanged
DetectedLogSwapped(w) ==
    IF w THEN Log("Detected Linux ISO") ELSE Log("Detected Windows ISO")

\* the line run() logs once the classifier has returned
DetectedLog(w) == IF w THEN Log("Detected Windows ISO") ELSE Log("Detected Linux ISO")

\* variant: the classifier returns without the umount and rmdir of its
\* finally block
ClassifyNoRelease ==
    /\ pc = "classify_finally"
    /\ IF exc # NoExc
       THEN /\ trace' = trace
            /\ pc' = "except"
       ELSE /\ trace' = Append(trace, DetectedLog(isWin))
            /\ pc' = IF isWin THEN "win_wipefs" ELSE "linux_start"
    /\ UNCHANGED <<aux, missing, bootmgr, sources, mounted, dirs, wiped, isWin, exc,
                   ci, total, nlines>>

\* finally: umount, rmdir; then run() logs the kind and enters the flow
ClassifyFinally ==
    /\ pc = "classify_finally"
    /\ IF "umount" \in missing
       THEN /\ trace' = Append(trace, NotFoundEv("umount_detect"))
            /\ exc' = FileNotFoundError("umount_detect")
            /\ pc' = "except"
            /\ UNCHANGED <<mounted, dirs>>
       ELSE \E rc \in UmountOutcomes("detect") :
            /\ mounted' = AfterUmount("detect", rc)
            \* os.rmdir fails on a busy mount point; OSError is passed over
            /\ dirs' = IF "detect" \in mounted' THEN dirs ELSE dirs \ {"detect"}
            /\ exc' = exc
            /\ IF exc # NoExc
               THEN /\ trace' = Append(trace, CmdEv("umount_detect", rc))
                    /\ pc' = "except"
               ELSE /\ trace' = trace \o <<CmdEv("umount_detect", rc), DetectedLog(isWin)>>
                    /\ pc' = IF isWin THEN "win_wipefs" ELSE "linux_start"
    /\ UNCHANGED <<aux, missing, bootmgr, sources, wiped, isWin, ci, total, nlines>>

(***************************************************************************)
(* Windows flow: windows_flow.                                             *)
(***************************************************************************)
\* the three mount points under the flow's base directory
FlowMounts == {"iso", "boot", "install"}

\* variant: no finally block, a failing command leaves the flow at once
CheckedNoFinally(c, pre, post, okpc, mps) ==
    /\ ci' = ci
    /\ IF Tool(c) \in missing
       THEN /\ trace' = trace \o pre \o <<NotFoundEv(c)>>
            /\ exc' = FileNotFoundError(c)
            /\ pc' = "except"
            /\ mounted' = mounted
       ELSE \E rc \in {0, 1} :
            IF rc = 0
            THEN /\ trace' = trace \o pre \o <<CmdEv(c, 0)>> \o post
                 /\ exc' = exc
                 /\ pc' = okpc
                 /\ mounted' = mounted \cup mps
            ELSE /\ trace' = trace \o pre \o <<CmdEv(c, rc)>>
                 /\ exc' = CalledProcessError(c)
                 /\ pc' = "except"
                 /\ mounted' = mounted

\* variant: check=False, the exit status is not looked at
CheckedIgnoringExit(c, pre, post, okpc, mps) ==
    /\ ci' = ci
    /\ IF Tool(c) \in missing
       THEN /\ trace' = trace \o pre \o <<NotFoundEv(c)>>
            /\ exc' = FileNotFoundError(c)
            /\ pc' = "win_cleanup"
            /\ mounted' = mounted
       ELSE \E rc \in {0, 1} :
            /\ trace' = trace \o pre \o <<CmdEv(c, rc)>> \o post
            /\ exc' = exc
            /\ pc' = okpc
            /\ mounted' = IF rc = 0 THEN mounted \cup mps ELSE mounted

\* subprocess.run(argv, check=True) inside the try block: `pre' is emitted
\* before the command, `post' after it returned zero; a non-zero exit or
\* an absent binary raises and control passes to the finally block
Checked(c, pre, post, okpc, mps) ==
    /\ ci' = ci
    /\ IF Tool(c) \in missing
       THEN /\ trace' = trace \o pre \o <<NotFoundEv(c)>>
            /\ exc' = FileNotFoundError(c)
            /\ pc' = "win_cleanup"
            /\ mounted' = mounted
       ELSE \E rc \in {0, 1} :
            IF rc = 0
            THEN /\ trace' = trace \o pre \o <<CmdEv(c, 0)>> \o post
                 /\ exc' = exc
                 /\ pc' = okpc
                 /\ mounted' = mounted \cup mps
            ELSE /\ trace' = trace \o pre \o <<CmdEv(c, rc)>>
                 /\ exc' = CalledProcessError(c)
                 /\ pc' = "win_cleanup"
                 /\ mounted' = mounted

\* mkdtemp, makedirs of the three mount points, then wipefs -a
WinWipefs ==
    /\ pc = "win_wipefs"
    /\ dirs' = dirs \cup {"base"} \cup FlowMounts
    /\ Checked("wipefs", <<Log("Wiping and partitioning...")>>, <<>>, "win_mklabel", {})
    /\ UNCHANGED <<aux, missing, bootmgr, sources, wiped, isWin, total, nlines>>

\* parted mklabel gpt; overall 10
WinMklabel ==
    /\ pc = "win_mklabel"
    /\ Checked("mklabel", <<>>, <<Overall(10), StepEv(100)>>, "win_mkpart_boot", {})
    /\ UNCHANGED <<aux, missing, bootmgr, sources, dirs, wiped, isWin, total, nlines>>

\* first pass of the partition loop: BOOT, fat32, 0% to 1GiB
WinMkpartBoot ==
    /\ pc = "win_mkpart_boot"
    /\ Checked("mkpart_boot", <<Log("Creating partition BOOT...")>>, <<>>,
               "win_mkpart_install", {})
    /\ UNCHANGED <<aux, missing, bootmgr, sources, dirs, wiped, isWin, total, nlines>>

\* second pass of the partition loop: ESD-USB, ntfs, 1GiB to 100%
WinMkpartInstall ==
    /\ pc = "win_mkpart_install"
    /\ Checked("mkpart_install", <<Log("Creating partition ESD-USB...")>>, <<>>,
               "win_mkfs_vfat", {})
    /\ UNCHANGED <<aux, missing, bootmgr, sources, dirs, wiped, isWin, total, nlines>>

\* variant: mkfs.vfat run with check=False
WinMkfsVfatUnchecked ==
    /\ pc = "win_mkfs_vfat"
    /\ CheckedIgnoringExit("mkfs_vfat", <<Log("Formatting BOOT as FAT32...")>>, <<>>,
                           "win_mkfs_ntfs", {})
    /\ UNCHANGED <<aux, missing, bootmgr, sources, dirs, wiped, isWin, total, nlines>>

\* mkfs.vfat on the first partition
WinMkfsVfat ==
    /\ pc = "win_mkfs_vfat"
    /\ Checked("mkfs_vfat", <<Log("Formatting BOOT as FAT32...")>>, <<>>,
               "win_mkfs_ntfs", {})
    /\ UNCHANGED <<aux, missing, bootmgr, sources, dirs, wiped, isWin, total, nlines>>

\* variant: the flow goes from formatting straight to the mount of BOOT
WinMkfsNtfsThenMountBoot ==
    /\ pc = "win_mkfs_ntfs"
    /\ Checked("mkfs_ntfs", <<Log("Formatting INSTALL as NTFS...")>>,
               <<Overall(30), StepEv(100)>>, "win_mount_boot", {})
    /\ UNCHANGED <<aux, missing, bootmgr, sources, dirs, wiped, isWin, total, nlines>>

\* mkfs.ntfs on the second partition; overall 30
WinMkfsNtfs ==
    /\ pc = "win_mkfs_ntfs"
    /\ Checked("mkfs_ntfs", <<Log("Formatting INSTALL as NTFS...")>>,
               <<Overall(30), StepEv(100)>>, "win_mount_iso", {})
    /\ UNCHANGED <<aux, missing, bootmgr, sources, dirs, wiped, isWin, total, nlines>>

\* variant: the watermark after the image mount is lower than the one before
WinMountIsoEmits25 ==
    /\ pc = "win_mount_iso"
    /\ Checked("mount_iso", <<Log("Mounting ISO...")>>,
               <<Overall(25), StepEv(100)>>, "win_mount_boot", {"iso"})
    /\ UNCHANGED <<aux, missing, bootmgr, sources, dirs, wiped, isWin, total, nlines>>

\* read-only loop mount of the image; overall 35
WinMountIso ==
    /\ pc = "win_mount_iso"
    /\ Checked("mount_iso", <<Log("Mounting ISO...")>>,
               <<Overall(35), StepEv(100)>>, "win_mount_boot", {"iso"})
    /\ UNCHANGED <<aux, missing, bootmgr, sources, dirs, wiped, isWin, total, nlines>>

\* mount of the first partition
WinMountBoot ==
    /\ pc = "win_mount_boot"
    /\ Checked("mount_boot", <<Log("Mounting BOOT partition...")>>, <<>>,
               "win_rsync_boot", {"boot"})
    /\ UNCHANGED <<aux, missing, bootmgr, sources, dirs, wiped, isWin, total, nlines>>

\* variant: overall 60 emitted after the rsync already
WinRsyncBootEmits60 ==
    /\ pc = "win_rsync_boot"
    /\ Checked("rsync_boot", <<Log("Copying files to BOOT...")>>,
               <<Overall(60), StepEv(100)>>, "win_cp_bootwim", {})
    /\ UNCHANGED <<aux, missing, bootmgr, sources, dirs, wiped, isWin, total, nlines>>

\* rsync of the image to BOOT, sources/ excluded
WinRsyncBoot ==
    /\ pc = "win_rsync_boot"
    /\ Checked("rsync_boot", <<Log("Copying files to BOOT...")>>, <<>>,
               "win_cp_bootwim", {})
    /\ UNCHANGED <<aux, missing, bootmgr, sources, dirs, wiped, isWin, total, nlines>>

\* cp of sources/boot.wim to BOOT; overall 60
WinCpBootWim ==
    /\ pc = "win_cp_bootwim"
    /\ Checked("cp_bootwim", <<Log("Copying boot.wim...")>>,
               <<Overall(60), StepEv(100)>>, "win_mount_install", {})
    /\ UNCHANGED <<aux, missing, bootmgr, sources, dirs, wiped, isWin, total, nlines>>

\* mount of the second partition
WinMountInstall ==
    /\ pc = "win_mount_install"
    /\ Checked("mount_install", <<Log("Mounting INSTALL partition...")>>, <<>>,
               "win_rsync_install", {"install"})
    /\ UNCHANGED <<aux, missing, bootmgr, sources, dirs, wiped, isWin, total, nlines>>

\* rsync of the whole image to INSTALL; overall 90; the try block ends
WinRsyncInstall ==
    /\ pc = "win_rsync_install"
    /\ Checked("rsync_install", <<Log("Copying files to INSTALL...")>>,
               <<Overall(90), StepEv(100)>>, "win_cleanup", {})
    /\ UNCHANGED <<aux, missing, bootmgr, sources, dirs, wiped, isWin, total, nlines>>

\* variant: the mount points in the order they were mounted
AcquisitionOrder == <<"iso", "boot", "install">>

\* for m in (inst_m, boot_m, iso_m)
CleanupOrder == <<"install", "boot", "iso">>

UmountCmd(m) == "umount_" \o m

\* variant: the umount loop runs with check=True, a non-zero exit raises
WinUmountChecked ==
    /\ pc = "win_cleanup"
    /\ LET m == CleanupOrder[ci]
           pre == IF ci = 1 THEN <<Log("Cleaning up mounts...")>> ELSE <<>>
       IN IF "umount" \in missing
          THEN /\ trace' = trace \o pre \o <<NotFoundEv(UmountCmd(m))>>
               /\ exc' = FileNotFoundError(UmountCmd(m))
               /\ pc' = "except"
               /\ UNCHANGED <<mounted, ci>>
          ELSE \E rc \in UmountOutcomes(m) :
               /\ trace' = trace \o pre \o <<CmdEv(UmountCmd(m), rc)>>
               /\ mounted' = AfterUmount(m, rc)
               /\ IF rc # 0
                  THEN /\ exc' = CalledProcessError(UmountCmd(m))
                       /\ pc' = "except"
                       /\ ci' = ci
                  ELSE /\ exc' = exc
                       /\ IF ci < Len(CleanupOrder)
                          THEN pc' = pc /\ ci' = ci + 1
                          ELSE pc' = "win_rmtree" /\ ci' = ci
    /\ UNCHANGED <<aux, missing, bootmgr, sources, dirs, wiped, isWin, total, nlines>>

\* finally: one pass of the umount loop (check=False)
WinUmount ==
    /\ pc = "win_cleanup"
    /\ LET m == CleanupOrder[ci]
           pre == IF ci = 1 THEN <<Log("Cleaning up mounts...")>> ELSE <<>>
       IN IF "umount" \in missing
          THEN /\ trace' = trace \o pre \o <<NotFoundEv(UmountCmd(m))>>
               /\ exc' = FileNotFoundError(UmountCmd(m))
               /\ pc' = "except"
               /\ UNCHANGED <<mounted, ci>>
          ELSE \E rc \in UmountOutcomes(m) :
               /\ trace' = trace \o pre \o <<CmdEv(UmountCmd(m), rc)>>
               /\ mounted' = AfterUmount(m, rc)
               /\ exc' = exc
               /\ IF ci < Len(CleanupOrder)
                  THEN pc' = pc /\ ci' = ci + 1
                  ELSE pc' = "win_rmtree" /\ ci' = ci
    /\ UNCHANGED <<aux, missing, bootmgr, sources, dirs, wiped, isWin, total, nlines>>

\* variant: the mount point directories are removed, the base is left
AfterRmdirMountPoints == dirs \ (FlowMounts \ mounted)

\* shutil.rmtree(base, ignore_errors=True): it descends into whatever is
\* still mounted, deletes what is writable there, and cannot remove a busy
\* mount point nor the directory that holds one
AfterRmtree ==
    IF mounted \cap FlowMounts = {}
    THEN dirs \ ({"base"} \cup FlowMounts)
    ELSE dirs \ (FlowMounts \ mounted)

\* finally, after the umount loop: rmtree, sync (check=False), the closing
\* signals; then the pending exception, if any, propagates
WinRmtreeSync ==
    /\ pc = "win_rmtree"
    /\ dirs' = AfterRmtree
    /\ wiped' = wiped \cup (mounted \cap {"boot", "install"})
    /\ IF "sync" \in missing
       THEN /\ trace' = Append(trace, NotFoundEv("sync"))
            /\ exc' = FileNotFoundError("sync")
            /\ pc' = "except"
       ELSE \E rc \in {0, 1} :
            /\ trace' = trace \o <<CmdEv("sync", rc), Overall(100), StepEv(100),
                                   Log("Windows USB creation completed.")>>
            /\ exc' = exc
            /\ pc' = IF exc # NoExc THEN "except" ELSE "returned"
    /\ UNCHANGED <<aux, missing, bootmgr, sources, mounted, isWin, ci, total, nlines>>

(***************************************************************************)
(* Linux flow: linux_dd_flow.                                              *)
(***************************************************************************)
Min(a, b) == IF a < b THEN a ELSE b

\* variant: no clamp
PctUnclamped(num, tot) == (num * 100) \div tot

\* min(int(num * 100 / total), 100), for total > 0
Pct(num, tot) == Min((num * 100) \div tot, 100)

Lines ==
    {[kind |-> k, num |-> 0] : k \in LineKinds \ {"progress"}}
        \cup {[kind |-> "progress", num |-> n] : n \in Nums}

\* mkdtemp, the first log line, Popen of dd, getsize
LinuxStart ==
    /\ pc = "linux_start"
    /\ dirs' = dirs \cup {"base"}
    /\ IF "dd" \in missing
       THEN /\ trace' = trace \o <<Log("Starting dd copy..."), NotFoundEv("dd")>>
            /\ exc' = FileNotFoundError("dd")
            /\ pc' = "linux_finally"
            /\ total' = total
       ELSE /\ trace' = trace \o <<Log("Starting dd copy..."), SpawnEv("dd")>>
            /\ exc' = exc
            /\ pc' = "dd_loop"
            /\ total' \in Sizes
    /\ UNCHANGED <<aux, missing, bootmgr, sources, mounted, wiped, isWin, ci, nlines>>

\* one carriage-return-terminated line taken from the buffer while dd runs
DdLine ==
    /\ pc = "dd_loop"
    /\ nlines < MaxLines
    /\ nlines' = nlines + 1
    /\ \E line \in Lines :
       IF line.kind # "progress"
       THEN UNCHANGED <<trace, exc, pc>>
       ELSE IF total = 0
            THEN /\ exc' = ZeroDivisionError
                 /\ pc' = "linux_finally"
                 /\ trace' = trace
            ELSE /\ trace' = Append(trace, Ev("log", "Copied <pct>%", "", Pct(line.num, total)))
                 /\ UNCHANGED <<exc, pc>>
    /\ UNCHANGED <<aux, missing, bootmgr, sources, mounted, dirs, wiped, isWin, ci, total>>

\* variant: the return code of dd is not looked at
DdExitUnchecked ==
    /\ pc = "dd_loop"
    /\ \E rc \in {0, 1} :
       /\ trace' = trace \o <<CmdEv("dd", rc), Log("Syncing to disk...")>>
       /\ exc' = exc
       /\ pc' = "linux_sync"
    /\ UNCHANGED <<aux, missing, bootmgr, sources, mounted, dirs, wiped, isWin, ci,
                   total, nlines>>

\* dd exited: proc.wait(), the return code test
DdExit ==
    /\ pc = "dd_loop"
    /\ \E rc \in {0, 1} :
       IF rc # 0
       THEN /\ trace' = Append(trace, CmdEv("dd", rc))
            /\ exc' = RuntimeError
            /\ pc' = "linux_finally"
       ELSE /\ trace' = trace \o <<CmdEv("dd", 0), Log("Syncing to disk...")>>
            /\ exc' = exc
            /\ pc' = "linux_sync"
    /\ UNCHANGED <<aux, missing, bootmgr, sources, mounted, dirs, wiped, isWin, ci,
                   total, nlines>>

\* variant: sync run with check=True
LinuxSyncChecked ==
    /\ pc = "linux_sync"
    /\ pc' = "linux_finally"
    /\ IF "sync" \in missing
       THEN /\ trace' = Append(trace, NotFoundEv("sync"))
            /\ exc' = FileNotFoundError("sync")
       ELSE \E rc \in {0, 1} :
            IF rc = 0
            THEN /\ trace' = trace \o <<CmdEv("sync", rc), Log("dd copy completed.")>>
                 /\ exc' = exc
            ELSE /\ trace' = Append(trace, CmdEv("sync", rc))
                 /\ exc' = CalledProcessError("sync")
    /\ UNCHANGED <<aux, missing, bootmgr, sources, mounted, dirs, wiped, isWin, ci,
                   total, nlines>>

\* sync (check=False) and the completion line
LinuxSync ==
    /\ pc = "linux_sync"
    /\ pc' = "linux_finally"
    /\ IF "sync" \in missing
       THEN /\ trace' = Append(trace, NotFoundEv("sync"))
            /\ exc' = FileNotFoundError("sync")
       ELSE \E rc \in {0, 1} :
            /\ trace' = trace \o <<CmdEv("sync", rc), Log("dd copy completed.")>>
            /\ exc' = exc
    /\ UNCHANGED <<aux, missing, bootmgr, sources, mounted, dirs, wiped, isWin, ci,
                   total, nlines>>

\* finally: rmtree of the base directory; the pending exception propagates
LinuxFinally ==
    /\ pc = "linux_finally"
    /\ dirs' = dirs \ {"base"}
    /\ pc' = IF exc # NoExc THEN "except" ELSE "returned"
    /\ UNCHANGED <<aux, missing, bootmgr, sources, mounted, wiped, isWin, exc, trace,
                   ci, total, nlines>>

(***************************************************************************)
(* Run controller: the tail of WorkerThread.run.                           *)
(***************************************************************************)
\* variant: the result is emitted before the error is logged
ExceptEventsDoneFirst(e) ==
    <<Ev("done", Str(e), StrCmd(e), 0), Ev("log", "ERROR: " \o Str(e), StrCmd(e), 0)>>

\* what the except clause emits for exception e
ExceptEvents(e) ==
    <<Ev("log", "ERROR: " \o Str(e), StrCmd(e), 0), Ev("done", Str(e), StrCmd(e), 0)>>

\* the flow returned: self.done.emit(True, '')
RunDone ==
    /\ pc = "returned"
    /\ pc' = "finished"
    /\ trace' = Append(trace, Ev("done", "", "", 1))
    /\ UNCHANGED <<aux, missing, bootmgr, sources, mounted, dirs, wiped, isWin, exc,
                   ci, total, nlines>>

\* except Exception as e: log, then self.done.emit(False, str(e))
RunExcept ==
    /\ pc = "except"
    /\ pc' = "finished"
    /\ trace' = trace \o ExceptEvents(exc)
    /\ UNCHANGED <<aux, missing, bootmgr, sources, mounted, dirs, wiped, isWin, exc,
                   ci, total, nlines>>

Next ==
    \/ ClassifyMount
    \/ ClassifyFinally
    \/ WinWipefs
    \/ WinMklabel
    \/ WinMkpartBoot
    \/ WinMkpartInstall
    \/ WinMkfsVfat
    \/ WinMkfsNtfs
    \/ WinMountIso
    \/ WinMountBoot
    \/ WinRsyncBoot
    \/ WinCpBootWim
    \/ WinMountInstall
    \/ WinRsyncInstall
    \/ WinUmount
    \/ WinRmtreeSync
    \/ LinuxStart
    \/ DdLine
    \/ DdExit
    \/ LinuxSync
    \/ LinuxFinally
    \/ RunDone
    \/ RunExcept

Spec == Init /\ [][Next]_vars
(***************************************************************************)
(* Reading the trace.                                                      *)
(***************************************************************************)
Idx == DOMAIN trace

\* entry i is command c having returned
IsCmd(i, c) == trace[i].kind = "cmd" /\ trace[i].cmd = c

\* entry i is a process that was actually started
IsRun(i) == trace[i].kind \in {"cmd", "spawn"}

Invoked(c) == \E i \in Idx : IsRun(i) /\ trace[i].cmd = c

Succeeded(c) == \E i \in Idx : IsCmd(i, c) /\ trace[i].val = 0

Failed(c) == \E i \in Idx : IsCmd(i, c) /\ trace[i].val # 0

DoneIdx == {i \in Idx : trace[i].kind = "done"}

Done == DoneIdx # {}

\* the terminal event, once emitted
DoneEv == trace[CHOOSE i \in DoneIdx : TRUE]

\* run() dispatched the Windows flow, the Linux flow
InWindowsFlow == \E i \in Idx : trace[i] = Log("Detected Windows ISO")

InLinuxFlow == \E i \in Idx : trace[i] = Log("Detected Linux ISO")

\* the classifier has returned or raised
Classified == pc \notin {"classify", "classify_finally"}

MountCmd(m) == "mount_" \o m

\* the commands of the Windows flow's try block, in program order
WinStepCmds ==
    <<"wipefs", "mklabel", "mkpart_boot", "mkpart_install", "mkfs_vfat", "mkfs_ntfs",
      "mount_iso", "mount_boot", "rsync_boot", "cp_bootwim", "mount_install",
      "rsync_install">>

WinStepCmdSet == {WinStepCmds[k] : k \in DOMAIN WinStepCmds}

\* the values of the entries of trace that satisfy Test, in order
Vals(Test(_)) ==
    LET s == SelectSeq(trace, Test) IN [k \in 1..Len(s) |-> s[k].val]

Cmds(Test(_)) ==
    LET s == SelectSeq(trace, Test) IN [k \in 1..Len(s) |-> s[k].cmd]

IsOverall(e) == e.kind = "overall"

IsFlowUmount(e) == e.kind = "cmd" /\ e.cmd \in {UmountCmd(m) : m \in FlowMounts}

(***************************************************************************)
(* C1.  Every run emits exactly one terminal done event and nothing after  *)
(* it: at most one done is ever in the trace, it is the last entry, the    *)
(* run is finished exactly when it has been emitted, and a run that is not *)
(* finished can always take its next step.                                 *)
(***************************************************************************)
C1_ExactlyOneDone ==
    /\ Cardinality(DoneIdx) <= 1
    /\ \A i \in DoneIdx : i = Len(trace)
    /\ (pc = "finished") <=> Done
    /\ pc # "finished" => ENABLED Next

\* a failed Windows run: cleanup signals were emitted, then done(False, ...)
C1_Witness ==
    /\ pc = "finished"
    /\ InWindowsFlow
    /\ DoneEv.val = 0
    /\ \E i \in Idx : trace[i] = Overall(100)

(***************************************************************************)
(* C2 as stated.  When the terminal result of a Windows run is emitted, no *)
(* mount of the flow is still active.                                      *)
(***************************************************************************)
C2_NoResidualFlowMount ==
    (Done /\ InWindowsFlow) => mounted \cap FlowMounts = {}

(***************************************************************************)
(* C2 amended.  For every mount a Windows flow run acquired, exactly one   *)
(* umount of its mount point has been attempted, after the mount, by the   *)
(* time the terminal result is emitted; the mount is still active then     *)
(* only if that umount exited non-zero.                                    *)
(***************************************************************************)
C2_ReleaseAttemptedOnce ==
    (Done /\ InWindowsFlow) =>
        \A m \in FlowMounts :
            Succeeded(MountCmd(m)) =>
                LET acq == CHOOSE i \in Idx : IsCmd(i, MountCmd(m))
                    rel == {j \in Idx : trace[j].kind \in {"cmd", "enoent"}
                                          /\ trace[j].cmd = UmountCmd(m)}
                IN /\ Cardinality(rel) = 1
                   /\ \A j \in rel :
                        /\ trace[j].kind = "cmd"
                        /\ acq < j
                        /\ m \in mounted => trace[j].val # 0
                        /\ trace[j].val = 0 => m \notin mounted

\* a Windows run that ends with the boot mount still active
C2_Witness ==
    /\ Done
    /\ InWindowsFlow
    /\ Succeeded("mount_boot")
    /\ "boot" \in mounted
    /\ "iso" \notin mounted

(***************************************************************************)
(* C3.  In the Windows flow, once a command of the try block has exited    *)
(* non-zero no later command of the try block is invoked, and the umount   *)
(* of each of the three mount points is attempted between the failure and  *)
(* the terminal result.                                                    *)
(***************************************************************************)
C3_FailureAbortsSteps ==
    \A i \in Idx :
        (trace[i].kind = "cmd" /\ trace[i].cmd \in WinStepCmdSet /\ trace[i].val # 0) =>
            /\ \A j \in Idx :
                 (j > i /\ trace[j].kind \in {"cmd", "spawn", "enoent"})
                     => trace[j].cmd \notin WinStepCmdSet
            /\ Done =>
                 \A m \in FlowMounts :
                     \E j \in Idx : j > i /\ IsCmd(j, UmountCmd(m))

\* a Windows run whose copy to BOOT failed and that has ended
C3_Witness ==
    /\ Done
    /\ Failed("rsync_boot")

(***************************************************************************)
(* C4 as stated.  If the classifier's mount of the image fails, the run    *)
(* ends in failure, no flow is dispatched and no dd, wipefs, parted or     *)
(* mkfs command is invoked.                                                *)
(***************************************************************************)
C4_MountFailurePropagates ==
    Failed("mount_detect") =>
        /\ ~InWindowsFlow
        /\ ~InLinuxFlow
        /\ \A c \in {"dd", "wipefs", "mklabel", "mkpart_boot", "mkpart_install",
                     "mkfs_vfat", "mkfs_ntfs"} : ~Invoked(c)
        /\ Done => DoneEv.val = 0

(***************************************************************************)
(* C5.  In a Windows run in which every command exits zero, the overall    *)
(* values emitted are exactly 10, 30, 35, 60, 90, 100, and each is emitted *)
(* after the commands of its step and before those of the next step.       *)
(***************************************************************************)
WinWatermarks == <<10, 30, 35, 60, 90, 100>>

\* the commands that run between one watermark and the next
WinStepOf ==
    <<{"wipefs", "mklabel"},
      {"mkpart_boot", "mkpart_install", "mkfs_vfat", "mkfs_ntfs"},
      {"mount_iso"},
      {"mount_boot", "rsync_boot", "cp_bootwim"},
      {"mount_install", "rsync_install"},
      {"umount_install", "umount_boot", "umount_iso", "sync"}>>

AllCommandsSucceeded ==
    \A i \in Idx : trace[i].kind \in {"cmd", "enoent"} => trace[i].val = 0

PosOverall(v) == CHOOSE i \in Idx : trace[i] = Overall(v)

C5_WindowsOverallSequence ==
    (Done /\ InWindowsFlow /\ AllCommandsSucceeded) =>
        /\ Vals(IsOverall) = WinWatermarks
        /\ \A k \in DOMAIN WinWatermarks :
             \A c \in WinStepOf[k] :
                \E i \in Idx :
                    /\ IsCmd(i, c)
                    /\ i < PosOverall(WinWatermarks[k])
                    /\ k > 1 => PosOverall(WinWatermarks[k - 1]) < i

\* a Windows run that succeeded with every command exiting zero
C5_Witness ==
    /\ Done
    /\ InWindowsFlow
    /\ AllCommandsSucceeded
    /\ DoneEv.val = 1

(***************************************************************************)
(* C6.  The Windows flow attempts its umounts in the order install, boot,  *)
(* iso: at every moment the umounts attempted so far are a prefix of that  *)
(* order, all three have been attempted when the terminal result is        *)
(* emitted, and of two mounts the flow acquired the later acquired one is  *)
(* released first.                                                         *)
(***************************************************************************)
ReverseAcquisition == <<"umount_install", "umount_boot", "umount_iso">>

C6_ReverseReleaseOrder ==
    LET u == Cmds(IsFlowUmount)
    IN /\ Len(u) <= Len(ReverseAcquisition)
       /\ u = SubSeq(ReverseAcquisition, 1, Len(u))
       /\ (Done /\ InWindowsFlow) => u = ReverseAcquisition
       /\ Done =>
            \A a, b \in FlowMounts :
                \A i, j \in Idx :
                    (IsCmd(i, MountCmd(a)) /\ IsCmd(j, MountCmd(b)) /\ i < j
                        /\ trace[i].val = 0 /\ trace[j].val = 0) =>
                    \E x, y \in Idx :
                        IsCmd(x, UmountCmd(b)) /\ IsCmd(y, UmountCmd(a)) /\ x < y

\* a Windows run that acquired all three mounts, failed in the last copy
\* and has ended
C6_Witness ==
    /\ Done
    /\ Succeeded("mount_install")
    /\ Failed("rsync_install")

(***************************************************************************)
(* C7.  A formatter command of the Windows flow has failed and the         *)
(* terminal result has been emitted.                                       *)
(***************************************************************************)
Formatters == {"mkfs_vfat", "mkfs_ntfs"}

\* the result is a failure whose message carries the formatter's name, and
\* no mount or copy command of the flow was invoked
FormatterFailureReported(c) ==
    /\ DoneEv.val = 0
    /\ DoneEv.cmd = c
    /\ DoneEv.text = Str(CalledProcessError(c))
    /\ \A d \in {"mount_iso", "mount_boot", "mount_install", "rsync_boot",
                 "cp_bootwim", "rsync_install"} :
          \A i \in Idx : trace[i].cmd # d

(***************************************************************************)
(* C7 as stated.  ... and no mount is active when the result is emitted.   *)
(***************************************************************************)
C7_FormatterFailureNoMount ==
    \A c \in Formatters :
        (Done /\ Failed(c)) => (FormatterFailureReported(c) /\ mounted = {})

(***************************************************************************)
(* C7 amended.  When a formatter command fails in the Windows flow, the    *)
(* terminal result is done(False, message) with a message that names the   *)
(* failed formatter, no mount or copy command is invoked, and no mount is  *)
(* active when the result is emitted other than the classifier's           *)
(* detection mount in a run in which the classifier's umount exited        *)
(* non-zero.                                                               *)
(***************************************************************************)
C7_FormatterFailure ==
    \A c \in Formatters :
        (Done /\ Failed(c)) =>
            /\ FormatterFailureReported(c)
            /\ mounted \subseteq {"detect"}
            /\ "detect" \in mounted => Failed("umount_detect")

\* mkfs.ntfs failed in a run whose classifier could not unmount the image
C7_Witness ==
    /\ Done
    /\ Failed("mkfs_ntfs")
    /\ mounted = {"detect"}

(***************************************************************************)
(* C8 as stated.  When a binary is missing the run ends in a failure whose *)
(* message names the missing tool and which is reported on a path of its   *)
(* own: the log line and the message are not those the generic handler     *)
(* produces for an exception.                                              *)
(***************************************************************************)
C8_ToolNotFoundDistinct ==
    (Done /\ \E i \in Idx : trace[i].kind = "enoent") =>
        /\ DoneEv.val = 0
        /\ DoneEv.cmd # ""
        /\ Tool(DoneEv.cmd) \in missing
        /\ SubSeq(trace, Len(trace) - 1, Len(trace)) # ExceptEvents(exc)

(***************************************************************************)
(* C9.  Once the classifier has mounted the image and returned, what it    *)
(* returned, and the flow run() dispatched on it, is Windows exactly when  *)
(* bootmgr is a regular file and sources is a directory, and Linux for     *)
(* every other combination.                                                *)
(***************************************************************************)
C9_WindowsIffBothMarkers ==
    Succeeded("mount_detect") =>
        /\ isWin <=> (bootmgr = "file" /\ sources = "dir")
        /\ InWindowsFlow => (bootmgr = "file" /\ sources = "dir")
        /\ InLinuxFlow => ~(bootmgr = "file" /\ sources = "dir")
        /\ (Classified /\ Invoked("umount_detect")) => (InWindowsFlow \/ InLinuxFlow)

\* both names exist in the image but sources is not a directory: Linux
C9_Witness ==
    /\ Succeeded("mount_detect")
    /\ InLinuxFlow
    /\ bootmgr = "file"
    /\ sources = "file"

(***************************************************************************)
(* C10 as stated.  Once the classifier has returned or raised, no mount at *)
(* the detection mount point remains.                                      *)
(***************************************************************************)
C10_NoDetectMountAfterClassify ==
    Classified => "detect" \notin mounted

(***************************************************************************)
(* C10 amended.  Before the classifier returns or raises, on success and   *)
(* on failure, and so before the first command of the dispatched flow, it  *)
(* attempts the umount of the detection mount point exactly once; the      *)
(* mount it made is still active afterwards only if that umount exited     *)
(* non-zero or the umount binary could not be run.                         *)
(***************************************************************************)
C10_DetectReleaseAttempted ==
    Classified =>
        LET att == {j \in Idx : trace[j].kind \in {"cmd", "enoent"}}
            rel == {j \in att : trace[j].cmd = "umount_detect"}
        IN /\ Cardinality(rel) = 1
           /\ \A j \in rel :
                /\ \A i \in att : trace[i].cmd = "mount_detect" => i < j
                /\ \A i \in Idx :
                     (i \notin att \/ trace[i].cmd \notin {"mount_detect", "umount_detect"})
                        => j < i
                /\ "detect" \in mounted =>
                     (trace[j].kind = "enoent" \/ trace[j].val # 0)
                /\ (trace[j].kind = "cmd" /\ trace[j].val = 0) => "detect" \notin mounted

\* the Linux flow has started dd while the detection mount is still active
C10_Witness ==
    /\ Invoked("dd")
    /\ "detect" \in mounted
(***************************************************************************)
(* C15 as stated.  Two consecutive percentage emissions of the copy step   *)
(* never carry the same value.                                             *)
(***************************************************************************)
IsCopied(e) == e.kind = "log" /\ e.text = "Copied <pct>%"

C15_NoRepeatedPercentage ==
    LET p == Vals(IsCopied)
    IN \A k \in 1..(Len(p) - 1) : p[k] # p[k + 1]

(***************************************************************************)
(* C17 as stated.  The Linux flow on a zero-byte image raises no division  *)
(* by zero, whatever dd writes, and when dd does not fail the run ends in  *)
(* success with overall progress 100 emitted.                              *)
(***************************************************************************)
C17_ZeroByteImage ==
    (Invoked("dd") /\ total = 0) =>
        /\ exc.type # "ZeroDivisionError"
        /\ (Done /\ ~Failed("dd")) =>
              (DoneEv.val = 1 /\ \E i \in Idx : trace[i] = Overall(100))

(***************************************************************************)
(* C18 as stated.  In a Linux run that ends in success, step progress 100  *)
(* and overall progress 90 are emitted when dd has exited, and overall     *)
(* progress 100 after sync, before the terminal result.                    *)
(***************************************************************************)
C18_LinuxCompletionProgress ==
    (Done /\ InLinuxFlow /\ DoneEv.val = 1) =>
        \E d, a, b, y, c \in Idx :
            /\ IsCmd(d, "dd") /\ IsCmd(y, "sync")
            /\ trace[a] = StepEv(100) /\ trace[b] = Overall(90) /\ trace[c] = Overall(100)
            /\ d < a /\ d < b /\ b < y /\ y < c

(***************************************************************************)
(* C19.  When dd exits non-zero in the Linux flow nothing more of the flow *)
(* runs: sync is not invoked, neither 'Syncing to disk...' nor 'dd copy    *)
(* completed.' is logged, no success result is emitted, and the terminal   *)
(* result, once emitted, is done(False, 'dd failed').                      *)
(***************************************************************************)
C19_CopyFailureIsFatal ==
    Failed("dd") =>
        /\ \A i \in Idx :
             /\ trace[i] # Log("dd copy completed.")
             /\ trace[i] # Log("Syncing to disk...")
             /\ trace[i].cmd # "sync"
             /\ ~(trace[i].kind = "done" /\ trace[i].val = 1)
        /\ pc \in {"linux_finally", "except", "finished"}
        /\ Done => (DoneEv.val = 0 /\ DoneEv.text = "dd failed")

\* dd exited non-zero after a progress line and the run has ended
C19_Witness ==
    /\ Done
    /\ Failed("dd")
    /\ \E i \in Idx : IsCopied(trace[i])

(***************************************************************************)
(* C20 as stated.  When the terminal result of a run that entered a flow   *)
(* is emitted, the flow's base directory and the mount point directories   *)
(* under it are gone.                                                      *)
(***************************************************************************)
FlowDirs == {"base"} \cup FlowMounts

C20_TempDirsRemoved ==
    (Done /\ (InWindowsFlow \/ InLinuxFlow)) => dirs \cap FlowDirs = {}

(***************************************************************************)
(* C20 amended.  On every exit path of either flow the removal of the      *)
(* flow's base directory tree has been attempted by the time the terminal  *)
(* result is emitted; the base directory and the mount point directories   *)
(* are gone unless a mount of the flow is still active (its umount exited  *)
(* non-zero), in which case exactly the busy mount points and the base     *)
(* directory above them remain.                                            *)
(***************************************************************************)
C20_TempDirsRemovedUnlessBusy ==
    (Done /\ (InWindowsFlow \/ InLinuxFlow)) =>
        /\ mounted \cap FlowMounts = {} => dirs \cap FlowDirs = {}
        /\ mounted \cap FlowMounts # {} =>
              dirs \cap FlowDirs = {"base"} \cup (mounted \cap FlowMounts)
        /\ \A m \in mounted \cap FlowMounts : Failed(UmountCmd(m))

\* a failed Windows run with every mount released and nothing left behind
C20_Witness ==
    /\ Done
    /\ Succeeded("mount_boot")
    /\ Failed("rsync_boot")
    /\ mounted = {}
    /\ dirs = {}
(***************************************************************************)
(* The percentage of one progress line, on its own.                        *)
(***************************************************************************)
MaxNum == 1200       \* largest byte count of a progress line

\* sizes of the image, all positive
PctSizes == {1, 3, 1000}

InitPct ==
    /\ NoRun
    /\ calc \in [num : 0..MaxNum, total : PctSizes, out : {0 - 1}]
    /\ par = NoPar
    /\ two = NoTwo
    /\ gui = NoGui

\* pct = min(int(num * 100 / total), 100)
ComputePct ==
    /\ calc.out = 0 - 1
    /\ calc' = [calc EXCEPT !.out = Pct(calc.num, calc.total)]
    /\ UNCHANGED <<runvars, par, two, gui>>

NextPct == ComputePct

SpecPct == InitPct /\ [][NextPct]_vars

(***************************************************************************)
(* C14.  For a progress line "<n> bytes ..." and a size total > 0, the     *)
(* percentage is in 0..100; below 100 it is the integer q with             *)
(* q * total <= n * 100 < (q + 1) * total, and it is 100 exactly when      *)
(* n * 100 >= 100 * total.  With total = 1000: 500 gives 50, 1000 gives    *)
(* 100 and 1200 gives 100.                                                 *)
(***************************************************************************)
C14_PercentageFloorClamped ==
    calc.out # 0 - 1 =>
        LET n == calc.num
            t == calc.total
            q == calc.out
        IN /\ q \in 0..100
           /\ q < 100 => (q * t <= n * 100 /\ n * 100 < (q + 1) * t)
           /\ q = 100 <=> n * 100 >= 100 * t
           /\ (t = 1000 /\ n = 500) => q = 50
           /\ (t = 1000 /\ n = 1000) => q = 100
           /\ (t = 1000 /\ n = 1200) => q = 100

\* 1200 bytes of 1000 reported: clamped to 100
C14_Witness == calc = [num |-> 1200, total |-> 1000, out |-> 100]
(***************************************************************************)
(* The progress parser of linux_dd_flow, on its own: the loop that reads   *)
(* dd's stderr in chunks, keeps the unfinished line in buf and turns each  *)
(* finished line into a percentage.                                        *)
(***************************************************************************)
MaxStream == 6       \* symbols dd writes in all

\* the text of the stream, symbol by symbol: two digits, the text " bytes"
\* and the carriage return
Alphabet == {"5", "0", " bytes", "\r"}

\* sizes of the image
ParSizes == {10}

RECURSIVE IndexOf(_, _, _)
\* the first position at or after i where symbol c stands in q, 0 if none
IndexOf(q, c, i) ==
    IF i > Len(q) THEN 0
    ELSE IF q[i] = c THEN i
    ELSE IndexOf(q, c, i + 1)

RECURSIVE DigitsValue(_, _)
\* int() of a string of digits, acc being the value of those read so far
DigitsValue(ds, acc) ==
    IF ds = <<>> THEN acc
    ELSE DigitsValue(Tail(ds), acc * 10 + (IF Head(ds) = "5" THEN 5 ELSE 0))

\* one finished line: nothing without "bytes", nothing when int() of what
\* stands before " bytes" raises ValueError, else the percentage
LinePct(line, tot) ==
    LET b == IndexOf(line, " bytes", 1)
    IN IF b = 0 THEN <<>>
       ELSE IF b = 1 THEN <<>>
       ELSE <<Pct(DigitsValue(SubSeq(line, 1, b - 1), 0), tot)>>

\* the byte count of one finished line, under the same tests
LineNum(line) ==
    LET b == IndexOf(line, " bytes", 1)
    IN IF b <= 1 THEN <<>> ELSE <<DigitsValue(SubSeq(line, 1, b - 1), 0)>>

RECURSIVE Drain(_, _, _)
\* while '\r' in buf: split off the line, emit its percentage
Drain(buf, out, tot) ==
    LET r == IndexOf(buf, "\r", 1)
    IN IF r = 0 THEN [buf |-> buf, out |-> out]
       ELSE Drain(SubSeq(buf, r + 1, Len(buf)),
                  out \o LinePct(SubSeq(buf, 1, r - 1), tot), tot)

\* variant: each chunk is parsed by itself
Unbuffered(buf, chunk) == chunk

\* buf += chunk
Buffered(buf, chunk) == buf \o chunk

InitPar ==
    /\ NoRun
    /\ calc = NoCalc
    /\ \E n \in 0..MaxStream :
          par \in [stream : [1..n -> Alphabet], total : ParSizes, pos : {0},
                   buf : {<<>>}, out : {<<>>}]
    /\ two = NoTwo
    /\ gui = NoGui

\* one os.read of the next k symbols and the parsing that follows it
ReadChunk ==
    /\ par.pos < Len(par.stream)
    /\ \E k \in 1..(Len(par.stream) - par.pos) :
          LET chunk == SubSeq(par.stream, par.pos + 1, par.pos + k)
              d == Drain(Buffered(par.buf, chunk), par.out, par.total)
          IN par' = [par EXCEPT !.pos = par.pos + k, !.buf = d.buf, !.out = d.out]
    /\ UNCHANGED <<runvars, calc, two, gui>>

NextPar == ReadChunk

SpecPar == InitPar /\ [][NextPar]_vars

NonDecreasing(q) == \A k \in 1..(Len(q) - 1) : q[k] <= q[k + 1]

\* the percentages of the whole stream fed in one read
OneRead == Drain(par.stream, <<>>, par.total).out

RECURSIVE StreamNums(_)
\* the byte counts of the finished lines of a stream, in order
StreamNums(q) ==
    LET r == IndexOf(q, "\r", 1)
    IN IF r = 0 THEN <<>>
       ELSE LineNum(SubSeq(q, 1, r - 1)) \o StreamNums(SubSeq(q, r + 1, Len(q)))

AllRead == par.pos = Len(par.stream)

RunIds == {1, 2}

\* the other of the two runs
Other(r) == 3 - r

\* a run about to call _is_windows_iso on an image with markers b and s
NewRun(b, s) ==
    [pc |-> "makedirs", bootmgr |-> b, sources |-> s, mounted |-> FALSE,
     ret |-> FALSE, popped |-> FALSE, removed |-> FALSE]

InitTwo ==
    /\ NoRun
    /\ calc = NoCalc
    /\ par = NoPar
    /\ \E b1, s1, b2, s2 \in Markers :
          two = [run |-> <<NewRun(b1, s1), NewRun(b2, s2)>>, stack |-> <<>>,
                 dir |-> FALSE]
    /\ gui = NoGui

\* what the path <mountpt>/<name> shows: the marker of the image on top of
\* the stack, nothing in the bare directory
Seen(name) ==
    IF two.stack = <<>> THEN "absent"
    ELSE LET top == two.run[two.stack[Len(two.stack)]]
         IN IF name = "bootmgr" THEN top.bootmgr ELSE top.sources

\* os.makedirs(mountpt, exist_ok=True)
TwoMakedirs(r) ==
    /\ two.run[r].pc = "makedirs"
    /\ two' = [two EXCEPT !.run[r].pc = "mount", !.dir = TRUE]
    /\ UNCHANGED <<runvars, calc, par, gui>>

\* mount -o loop,ro iso mountpt; a failure is caught and False returned
TwoMount(r) ==
    /\ two.run[r].pc = "mount"
    /\ \E rc \in (IF two.dir THEN {0, 1} ELSE {1}) :
          IF rc = 0
          THEN two' = [two EXCEPT !.run[r].pc = "isfile", !.run[r].mounted = TRUE,
                                  !.stack = Append(two.stack, r)]
          ELSE two' = [two EXCEPT !.run[r].pc = "umount", !.run[r].ret = FALSE]
    /\ UNCHANGED <<runvars, calc, par, gui>>

\* os.path.isfile(mountpt/bootmgr), the left operand of `and'
TwoIsFile(r) ==
    /\ two.run[r].pc = "isfile"
    /\ IF Seen("bootmgr") = "file"
       THEN two' = [two EXCEPT !.run[r].pc = "isdir"]
       ELSE two' = [two EXCEPT !.run[r].pc = "umount", !.run[r].ret = FALSE]
    /\ UNCHANGED <<runvars, calc, par, gui>>

\* os.path.isdir(mountpt/sources), the right operand
TwoIsDir(r) ==
    /\ two.run[r].pc = "isdir"
    /\ two' = [two EXCEPT !.run[r].pc = "umount",
                          !.run[r].ret = (Seen("sources") = "dir")]
    /\ UNCHANGED <<runvars, calc, par, gui>>

\* finally: umount mountpt (check=False) detaches what is on top
TwoUmount(r) ==
    /\ two.run[r].pc = "umount"
    /\ \E rc \in (IF two.stack = <<>> THEN {1} ELSE {0, 1}) :
          IF rc = 0
          THEN LET top == two.stack[Len(two.stack)]
               IN two' = [two EXCEPT !.run[r].pc = "rmdir",
                                     !.run[r].popped = (top # r),
                                     !.stack = SubSeq(two.stack, 1, Len(two.stack) - 1)]
          ELSE two' = [two EXCEPT !.run[r].pc = "rmdir"]
    /\ UNCHANGED <<runvars, calc, par, gui>>

\* the other run has made sure of the directory and has not yet let go of it
Using(r) == two.run[r].pc \in {"mount", "isfile", "isdir", "umount"}

\* finally: os.rmdir(mountpt), OSError passed over
TwoRmdir(r) ==
    /\ two.run[r].pc = "rmdir"
    /\ IF two.dir /\ two.stack = <<>>
       THEN two' = [two EXCEPT !.run[r].pc = "returned", !.dir = FALSE,
                               !.run[r].removed = Using(Other(r))]
       ELSE two' = [two EXCEPT !.run[r].pc = "returned"]
    /\ UNCHANGED <<runvars, calc, par, gui>>

NextTwo ==
    \/ \E r \in RunIds : TwoMakedirs(r)
    \/ \E r \in RunIds : TwoMount(r)
    \/ \E r \in RunIds : TwoIsFile(r)
    \/ \E r \in RunIds : TwoIsDir(r)
    \/ \E r \in RunIds : TwoUmount(r)
    \/ \E r \in RunIds : TwoRmdir(r)

SpecTwo == InitTwo /\ [][NextTwo]_vars

(***************************************************************************)
(* C12 as stated.  Under every interleaving of two runs' classification    *)
(* steps, a run whose own mount succeeded returns what its own image's     *)
(* markers say, and no run's classifier unmounts the other's mount or      *)
(* removes the mount point while the other is using it.                    *)
(***************************************************************************)
C12_ConcurrentClassifiersIndependent ==
    \A r \in RunIds :
        /\ ~two.run[r].popped
        /\ ~two.run[r].removed
        /\ (two.run[r].pc = "returned" /\ two.run[r].mounted) =>
              (two.run[r].ret <=> (two.run[r].bootmgr = "file"
                                      /\ two.run[r].sources = "dir"))
(***************************************************************************)
(* The main window (gui.py) together with the WorkerThread it starts.  The *)
(* run variables follow the WorkerThread started while none was running;   *)
(* a WorkerThread started on top of it is counted in gui.started only.     *)
(***************************************************************************)
MaxStarts == 2       \* WorkerThreads started in all

\* the image the user can select, and the digest typed into the hash field
IsoPaths == {"", "a.iso"}

Hashes == {"", "good", "bad"}

Devices == {"", "/dev/sdb"}

\* what the selected image holds: a Windows image or a Linux image
Images == {<<"file", "dir">>, <<"absent", "absent">>}

\* hashlib.sha256 of the image compared with the text of the hash field
DigestMatches(iso, exp) == iso = "a.iso" /\ exp = "good"

\* os.path.isfile(iso)
IsFile(iso) == iso = "a.iso"

\* MainWindow.__init__: Start enabled, the verify row hidden, the device
\* list loaded once
InitGui ==
    /\ NoRun
    /\ calc = NoCalc
    /\ par = NoPar
    /\ two = NoTwo
    /\ \E d \in Devices :
          gui = [NoGui EXCEPT !.shown = TRUE, !.btn_start = TRUE, !.dev = d]

\* the window takes input
Open == gui.shown /\ ~gui.closed

\* a WorkerThread is between start() and the end of run()
Running == pc \notin {"idle", "finished", "killed"}

\* _browse_iso: the file dialog returns a path or nothing
GuiBrowse ==
    /\ Open
    /\ \E path \in IsoPaths :
          gui' = IF path # "" THEN [gui EXCEPT !.iso = path] ELSE gui
    /\ UNCHANGED <<runvars, calc, par, two>>

\* the check box shows and hides the verify row
GuiToggleVerify ==
    /\ Open
    /\ gui' = [gui EXCEPT !.chk_verify = ~gui.chk_verify]
    /\ UNCHANGED <<runvars, calc, par, two>>

\* text typed into hash_edit, which is part of the verify row
GuiTypeHash ==
    /\ Open
    /\ gui.chk_verify
    /\ \E h \in Hashes : gui' = [gui EXCEPT !.hash = h]
    /\ UNCHANGED <<runvars, calc, par, two>>

\* _verify_checksum, bound to the Verify button of the verify row;
\* gui.verified remembers that 'Checksum valid.' was the last verdict logged
\* for the selected image
GuiVerify ==
    /\ Open
    /\ gui.chk_verify
    /\ IF ~IsFile(gui.iso) \/ gui.hash = ""
       THEN gui' = gui
       ELSE IF DigestMatches(gui.iso, gui.hash)
            THEN gui' = [gui EXCEPT !.btn_start = TRUE, !.verified = TRUE]
            ELSE gui' = [gui EXCEPT !.btn_start = FALSE, !.verified = FALSE]
    /\ UNCHANGED <<runvars, calc, par, two>>

\* _load_devices, bound to Refresh: the list is rebuilt
GuiRefresh ==
    /\ Open
    /\ \E d \in Devices : gui' = [gui EXCEPT !.dev = d]
    /\ UNCHANGED <<runvars, calc, par, two>>

\* _start_process, bound to Start; a disabled button sends no click
GuiStart ==
    /\ Open
    /\ gui.btn_start
    /\ gui.started < MaxStarts
    /\ \E resp \in {"Yes", "No"}, img \in Images :
          IF \/ gui.chk_verify /\ ~gui.btn_start
             \/ ~IsFile(gui.iso)
             \/ gui.dev = ""
             \/ resp # "Yes"
          THEN UNCHANGED <<gui, runvars>>
          ELSE /\ gui' = [gui EXCEPT !.btn_start = FALSE, !.started = gui.started + 1]
               /\ IF pc = "idle"
                  THEN /\ pc' = "classify"
                       /\ bootmgr' = img[1]
                       /\ sources' = img[2]
                       /\ mounted' = {}
                       /\ dirs' = {}
                       /\ wiped' = {}
                       /\ isWin' = FALSE
                       /\ exc' = NoExc
                       /\ trace' = <<>>
                       /\ ci' = 1
                       /\ total' = 0
                       /\ nlines' = 0
                       /\ UNCHANGED missing
                  ELSE UNCHANGED runvars
    /\ UNCHANGED <<calc, par, two>>

\* _on_done, the slot of the worker's done signal
GuiOnDone ==
    /\ Open
    /\ pc = "finished"
    /\ pc' = "idle"
    /\ gui' = [gui EXCEPT !.btn_start = TRUE, !.handled = gui.handled + 1]
    /\ UNCHANGED <<missing, bootmgr, sources, mounted, dirs, wiped, isWin, exc,
                   trace, ci, total, nlines, calc, par, two>>

\* _cancel_confirm and, on Yes, _cancel_process and close().  Nothing of a
\* run is at /mnt/ntfs, /mnt/vfat or /mnt/iso: the flows mount under the
\* directory mkdtemp gave them, so the loop of _cancel_process finds no
\* mount and removes no directory of the run.
GuiCancelConfirm ==
    /\ Open
    /\ \E resp \in {"Yes", "No"} :
          IF resp = "Yes"
          THEN gui' = [gui EXCEPT !.btn_start = TRUE, !.closed = TRUE,
                                  !.cancelAt = IF Running THEN Len(trace)
                                                ELSE gui.cancelAt]
          ELSE gui' = gui
    /\ UNCHANGED <<runvars, calc, par, two>>

\* the window is closed and app.exec() has returned: the process goes away
\* with the WorkerThread wherever it stands
ProcessExit ==
    /\ gui.closed
    /\ Running
    /\ pc' = "killed"
    /\ UNCHANGED <<missing, bootmgr, sources, mounted, dirs, wiped, isWin, exc,
                   trace, ci, total, nlines, aux>>

NextGui ==
    \/ GuiBrowse
    \/ GuiToggleVerify
    \/ GuiTypeHash
    \/ GuiVerify
    \/ GuiRefresh
    \/ GuiStart
    \/ GuiOnDone
    \/ GuiCancelConfirm
    \/ ProcessExit
    \/ Next

SpecGui == InitGui /\ [][NextGui]_vars

(***************************************************************************)
(* C11 as stated.  From the start of a run until its done event is         *)
(* handled no second WorkerThread is started: the WorkerThreads started    *)
(* exceed the done events handled by one at most.                          *)
(***************************************************************************)
C11_SingleActiveRun == gui.started - gui.handled <= 1

\* a step command of a flow has been launched at entry i of the trace
Launched(i) ==
    \/ trace[i].kind = "spawn"
    \/ trace[i].kind = "cmd" /\ trace[i].cmd \in WinStepCmdSet

(***************************************************************************)
(* C13 as stated.  After a cancellation requested while a run is in        *)
(* progress, at most the command executing at that time is still run, no   *)
(* further step command of the run is launched, and once the run has ended *)
(* its mount points are unmounted (or their umount failed) and its         *)
(* directories removed as on normal exit.                                  *)
(***************************************************************************)
C13_CancelHonouredBetweenSteps ==
    gui.cancelAt >= 0 =>
        /\ Cardinality({i \in Idx : i > gui.cancelAt /\ Launched(i)}) <= 1
        /\ pc \in {"finished", "killed"} =>
              /\ \A m \in mounted \cap FlowMounts : Failed(UmountCmd(m))
              /\ mounted \cap FlowMounts = {} => dirs \cap FlowDirs = {}

\* every step command of the flow that was dispatched exited zero
WinStepsSucceeded == InWindowsFlow /\ \A c \in WinStepCmdSet : Succeeded(c)

LinuxStepsSucceeded == InLinuxFlow /\ Succeeded("dd")

\* an umount of the classifier or of the flow's cleanup exited non-zero
SomeReleaseFailed == \E m \in {"detect"} \cup FlowMounts : Failed(UmountCmd(m))

(***************************************************************************)
(* C21.  A failure during release never fails the run: when every step     *)
(* command of the dispatched flow exited zero and an umount of the         *)
(* classifier or of the flow's cleanup exited non-zero, the terminal       *)
(* result is success, and in the Windows flow each of the three umounts    *)
(* and the closing sync were still run, the umounts in cleanup order.      *)
(***************************************************************************)
C21_ReleaseFailureNotFatal ==
    (Done /\ (WinStepsSucceeded \/ LinuxStepsSucceeded) /\ SomeReleaseFailed) =>
        /\ DoneEv.val = 1
        /\ DoneEv.text = ""
        /\ InWindowsFlow =>
              /\ Cmds(IsFlowUmount) = [k \in 1..3 |-> UmountCmd(CleanupOrder[k])]
              /\ \E i, j \in Idx :
                    /\ IsCmd(i, UmountCmd("iso"))
                    /\ IsCmd(j, "sync")
                    /\ i < j

\* a Windows run whose steps all succeeded, whose first umount of the
\* cleanup failed and whose later ones succeeded
C21_Witness ==
    /\ Done
    /\ WinStepsSucceeded
    /\ Failed(UmountCmd("install"))
    /\ Succeeded(UmountCmd("boot"))
    /\ Succeeded(UmountCmd("iso"))
    /\ DoneEv.val = 1

(***************************************************************************)
(* C22.  Within a run of either flow, failed or not, the overall progress  *)
(* values emitted so far are non-decreasing and each lies in 0..100.       *)
(***************************************************************************)
C22_OverallMonotone ==
    LET v == Vals(IsOverall)
    IN /\ NonDecreasing(v)
       /\ \A k \in DOMAIN v : v[k] \in 0..100

\* a Windows run that failed at the copy to BOOT: the watermarks reached,
\* then the 100 of the finally block
C22_Witness ==
    /\ Done
    /\ InWindowsFlow
    /\ Failed("rsync_boot")
    /\ DoneEv.val = 0
    /\ Vals(IsOverall) = <<10, 30, 35, 100>>

\* entry e is a command of the Windows flow's try block that was attempted,
\* started or not
IsWinStepTry(e) == e.kind \in {"cmd", "enoent"} /\ e.cmd \in WinStepCmdSet

\* entry e is a command of the Windows flow's cleanup
IsWinCleanup(e) ==
    /\ e.kind \in {"cmd", "enoent"}
    /\ e.cmd \in {UmountCmd(m) : m \in FlowMounts} \cup {"sync"}

(***************************************************************************)
(* C23.  In a Windows flow run the commands of the try block are run one   *)
(* after the other in program order, each at most once: the commands       *)
(* attempted so far are a prefix of wipefs, mklabel, mkpart BOOT, mkpart   *)
(* ESD-USB, mkfs.vfat, mkfs.ntfs, mount image, mount BOOT, rsync to BOOT,  *)
(* cp boot.wim, mount INSTALL, rsync to INSTALL; every one of them but the *)
(* last was started and exited zero; the cleanup commands (the three       *)
(* umounts in cleanup order, then sync) come after all of them, each at    *)
(* most once.                                                              *)
(***************************************************************************)
C23_WindowsCommandOrder ==
    LET steps == SelectSeq(trace, IsWinStepTry)
        clean == SelectSeq(trace, IsWinCleanup)
        order == CleanupOrder
    IN InWindowsFlow =>
       /\ Len(steps) <= Len(WinStepCmds)
       /\ \A k \in DOMAIN steps : steps[k].cmd = WinStepCmds[k]
       /\ \A k \in 1..(Len(steps) - 1) : steps[k].kind = "cmd" /\ steps[k].val = 0
       /\ Len(clean) <= Len(order) + 1
       /\ \A k \in DOMAIN clean :
             clean[k].cmd = IF k <= Len(order) THEN UmountCmd(order[k]) ELSE "sync"
       /\ \A i, j \in Idx :
             (IsWinStepTry(trace[i]) /\ IsWinCleanup(trace[j])) => i < j
       /\ Done => Len(steps) >= 1 /\ Len(clean) >= 1

\* a Windows run that went through all twelve commands and its cleanup
C23_Witness ==
    /\ Done
    /\ InWindowsFlow
    /\ Cmds(IsWinStepTry) = WinStepCmds
    /\ Succeeded("rsync_install")
    /\ Invoked("sync")

\* entry i is a command that was attempted, started or not
IsTry(i) == trace[i].kind \in {"cmd", "spawn", "enoent"}

\* the entries where run() logged the detected kind
DetectedIdx ==
    {i \in Idx : trace[i] \in {Log("Detected Windows ISO"), Log("Detected Linux ISO")}}

\* _is_windows_iso returned a value: both of its commands could be started
ClassifierReturned ==
    /\ \E i \in Idx : IsCmd(i, "mount_detect")
    /\ \E i \in Idx : IsCmd(i, "umount_detect")

\* the commands of the classifier come before the log line, those of the
\* flow after it; a Linux run has dd and sync only, a Windows run no dd
FlowCommandsFrame ==
    \A d \in DetectedIdx : \A i \in Idx :
        IsTry(i) =>
            /\ (trace[i].cmd \in {"mount_detect", "umount_detect"}) <=> i < d
            /\ (i > d /\ InLinuxFlow) => trace[i].cmd \in {"dd", "sync"}
            /\ (i > d /\ InWindowsFlow) =>
                  trace[i].cmd \in WinStepCmdSet \cup {UmountCmd(m) : m \in FlowMounts}
                                     \cup {"sync"}

(***************************************************************************)
(* C24 as stated.  Each run dispatches exactly one of the two flows,       *)
(* chosen by the classification result, logs the detected kind before the  *)
(* first command of the flow, runs only dd and sync in a Linux run and no  *)
(* dd in a Windows run.                                                    *)
(***************************************************************************)
C24_ExactlyOneFlowPerRun ==
    Done =>
        /\ Cardinality(DetectedIdx) = 1
        /\ InWindowsFlow <=> isWin
        /\ InLinuxFlow <=> ~isWin
        /\ FlowCommandsFrame

(***************************************************************************)
(* C24 amended.  A run whose classifier returns dispatches exactly one of  *)
(* the two flows, the Windows flow exactly when the classifier returned    *)
(* True, and logs the detected kind once, after the classifier's commands  *)
(* and before the first command of the flow; a Linux run then attempts dd  *)
(* and sync only, a Windows run never dd.  A run whose classifier raises   *)
(* (mount or umount cannot be started) logs no kind and dispatches no      *)
(* flow.                                                                   *)
(***************************************************************************)
C24_OneFlowPerClassifiedRun ==
    /\ Cardinality(DetectedIdx) <= 1
    /\ Classified => (DetectedIdx # {} <=> ClassifierReturned)
    /\ ~Classified => DetectedIdx = {}
    /\ InWindowsFlow => isWin
    /\ InLinuxFlow => ~isWin
    /\ FlowCommandsFrame
    /\ DetectedIdx = {} => \A i \in Idx : IsTry(i) =>
                              trace[i].cmd \in {"mount_detect", "umount_detect"}

\* a Linux run that went through dd and sync
C24_Witness ==
    /\ Done
    /\ InLinuxFlow
    /\ ~isWin
    /\ Succeeded("dd")
    /\ Invoked("sync")

(***************************************************************************)
(* C25.  In the Linux flow, once dd has exited zero the run goes on to     *)
(* sync, which is run exactly once by the time the terminal result is      *)
(* emitted, and the result is success whatever sync exited with.           *)
(***************************************************************************)
C25_SyncBestEffort ==
    (InLinuxFlow /\ Succeeded("dd")) =>
        /\ pc \in {"linux_sync", "linux_finally", "returned", "finished"}
        /\ Cardinality({i \in Idx : IsTry(i) /\ trace[i].cmd = "sync"}) <= 1
        /\ pc # "linux_sync" =>
              \E d, y \in Idx : IsCmd(d, "dd") /\ IsCmd(y, "sync") /\ d < y
        /\ Done => DoneEv.val = 1 /\ DoneEv.text = ""

\* a Linux run that ended in success although sync exited non-zero
C25_Witness ==
    /\ Done
    /\ InLinuxFlow
    /\ Succeeded("dd")
    /\ Failed("sync")
    /\ DoneEv.val = 1

(***************************************************************************)
(* A run that starts while the image is still mounted elsewhere: "stale"   *)
(* is the image mount an earlier Windows run left under its own base       *)
(* directory when its umount exited non-zero.  No command of the run names *)
(* that mount point.                                                       *)
(***************************************************************************)
InitStale ==
    /\ pc = "classify"
    /\ missing \in {s \in SUBSET REQUIRED_TOOLS : Cardinality(s) <= MaxMissing}
    /\ bootmgr \in Markers
    /\ sources \in Markers
    /\ mounted = {"stale"}
    /\ dirs = {"stale"}
    /\ wiped = {}
    /\ isWin = FALSE
    /\ exc = NoExc
    /\ trace = <<>>
    /\ ci = 1
    /\ total = 0
    /\ nlines = 0
    /\ calc = NoCalc
    /\ par = NoPar
    /\ two = NoTwo
    /\ gui = NoGui

SpecStale == InitStale /\ [][Next]_vars

(***************************************************************************)
(* C26 as stated.  Before the classifier mounts the image it unmounts      *)
(* every mount of that image that exists already: once the classifier's    *)
(* mount command has been started, no earlier mount of the image is        *)
(* active, or an umount of it was run before.                              *)
(***************************************************************************)
C26_StaleMountReleasedFirst ==
    Invoked("mount_detect") =>
        \/ "stale" \notin mounted
        \/ \E u, m \in Idx :
              /\ IsTry(u) /\ trace[u].cmd = UmountCmd("stale")
              /\ IsTry(m) /\ trace[m].cmd = "mount_detect"
              /\ u < m

\* the Windows flow's rmtree has run: the sync that follows it was attempted
RmtreeRan == InWindowsFlow /\ \E i \in Idx : IsTry(i) /\ trace[i].cmd = "sync"

(***************************************************************************)
(* C27 as stated.  The removal of the flow's directory tree never runs     *)
(* while a mount under it is active: when rmtree has run, none of the      *)
(* image, boot and install mounts is active, and nothing on the target's   *)
(* partitions has been deleted by it.                                      *)
(***************************************************************************)
C27_NoRmtreeOverActiveMount ==
    RmtreeRan =>
        /\ mounted \cap FlowMounts = {}
        /\ wiped = {}

\* the completion lines of the two flows
CompletionLogs == {Log("Windows USB creation completed."), Log("dd copy completed.")}

(***************************************************************************)
(* C28 as stated.  A flow's completion line is emitted only in runs whose  *)
(* terminal result is success: a run that ends with done(False, ...) has   *)
(* no completion line in its log.                                          *)
(***************************************************************************)
C28_CompletionOnlyOnSuccess ==
    (Done /\ DoneEv.val = 0) => \A i \in Idx : trace[i] \notin CompletionLogs

\* this step is _start_process starting a WorkerThread
StartsWorker == gui'.started = gui.started + 1

(***************************************************************************)
(* C29 as stated.  With 'Verify SHA256 checksum' checked, a WorkerThread   *)
(* is started only if the last verification of the selected image          *)
(* succeeded: no step starts one with the option checked and the image     *)
(* unverified or its checksum mismatching.                                 *)
(***************************************************************************)
C29_StartOnlyVerified ==
    [][(StartsWorker /\ gui.chk_verify) => gui.verified]_vars

====
